---- MODULE Spec2Model ----
(***************************************************************************)
(* InputSystem of capra_web_ui (src/unnamed/part_000, lines 16-235): the   *)
(* per-frame gamepad polling loop, the keyboard handlers and the action    *)
(* map.  One action of the model is one whole handler of the class, run to *)
(* completion: the browser runs every callback on one thread.  The last    *)
(* part is mapGamepadToJoy of src/utils/gamepad/GamepadUtils.ts.           *)
(*                                                                         *)
(* Numbers: axis and button intensities are in hundredths (0.2 is 20).     *)
(* A JavaScript value that may be undefined/null is a sequence of length   *)
(* 0 (absent) or 1 (present).  A device id is the sequence of its words;   *)
(* String.includes is a contiguous-subsequence test.                       *)
(***************************************************************************)
EXTENDS Integers, Sequences, FiniteSets, TLC

VARIABLES
    isBrowserSupported, \* InputSystem.isBrowserSupported
    listening,          \* keydown/keyup listeners were added by the constructor
    isRunning,          \* InputSystem.isRunning
    actions,            \* InputSystem.actions
    lastTimestamp,      \* InputSystem.lastTimestamp, slot -> <<>> or <<t>>
    lastGamepad,        \* InputSystem.lastGamepad, slot -> <<>> or <<gamepad>>
    pending,            \* frame callbacks registered with requestAnimationFrame, not yet run
    pass,               \* the most recent evaluation pass (observation of the run)
    log,                \* the perform invocations of that pass, in order
    dispatched,         \* the same invocations as they were at dispatch time
    processedSample,    \* slot -> the sample of its latest completed evaluation
    startStreak,        \* start() calls just made with no other call between or inside (capped at 2)
    afterStop,          \* stop() was called and start() has not been called since
    ticksSinceStop,     \* frame callbacks run since that stop() (capped at 2)
    joySeqId,           \* GamepadUtils.ts: let joySeqId
    joy                 \* the latest call of mapGamepadToJoy: <<>> or <<[gamepad, now, msg, call]>>

vars == <<isBrowserSupported, listening, isRunning, actions, lastTimestamp,
          lastGamepad, pending, pass, log, dispatched, processedSample,
          startStreak, afterStop,
          ticksSinceStop, joySeqId, joy>>

----------------------------------------------------------------------------
(* Bounds of the model *)

\* cap on the frame callbacks that may be pending at once
MaxPending == 2

----------------------------------------------------------------------------
(* Devices *)

\* isPressed's threshold 0.1, in hundredths
PressThreshold == 10

IdXbox == <<"Xbox", "Controller">>
IdSpaceMouse == <<"3Dconnexion", "SpaceMouse", "Pro">>
IdUnknown == <<"Unknown", "Gamepad">>

BtnObj(p, v) == [typeof |-> "object", pressed |-> p, value |-> v]
BtnNum(v) == [typeof |-> "number", value |-> v]

Pad(id, axes, buttons, t) ==
    [id |-> id, axes |-> axes, buttons |-> buttons, timestamp |-> t]

\* The samples of the first controller.  A sample is the immutable snapshot
\* getGamepads() returns for a frame; timestamp is stored by the poller and
\* never read, and the model does not order the timestamps of the samples.
Samples ==
    { Pad(IdXbox, <<20>>, <<BtnObj(FALSE, 0)>>, 1),
      Pad(IdXbox, <<20>>, <<BtnObj(TRUE, 100)>>, 2),
      Pad(IdXbox, <<50>>, <<BtnObj(TRUE, 100)>>, 3),
      Pad(IdXbox, <<20>>, <<BtnNum(50)>>, 4),
      Pad(IdXbox, <<20>>, <<BtnNum(10)>>, 5),
      Pad(IdXbox, <<20>>, <<>>, 6),
      Pad(IdSpaceMouse, <<20>>, <<BtnObj(TRUE, 100)>>, 7),
      Pad(IdUnknown, <<20>>, <<BtnObj(TRUE, 100)>>, 8),
      Pad(IdXbox, <<>>, <<>>, 9) }

\* The samples of the second controller.
FewSamples == { Pad(IdXbox, <<20>>, <<BtnObj(TRUE, 100)>>, 2) }

\* What each slot of navigator.getGamepads() may hold, slot 0 first: null
\* (<<>>) or a device.
SlotValues ==
    << {<<>>} \cup { <<g>> : g \in Samples },
       {<<>>} \cup { <<g>> : g \in FewSamples } >>

\* gamepads.length
NumSlots == Len(SlotValues)

Slots == 0 .. (NumSlots - 1)

RECURSIVE ArraysUpTo(_)
ArraysUpTo(n) ==
    IF n = 0 THEN {<<>>}
    ELSE { Append(s, x) : s \in ArraysUpTo(n - 1), x \in SlotValues[n] }

\* The arrays navigator.getGamepads() may return.
GamepadArrays == ArraysUpTo(NumSlots)

\* String.prototype.includes on ids: pat occurs in id as a contiguous run.
Includes(id, pat) ==
    \E k \in 0 .. (Len(id) - Len(pat)) :
        \A j \in 1 .. Len(pat) : id[k + j] = pat[j]

\* array[i] with a 0-based index: <<>> when the index is out of range.
At(arr, i) == IF (i + 1) \in DOMAIN arr THEN <<arr[i + 1]>> ELSE <<>>

\* isInvalidGamepad with && for ||
isInvalidGamepad_Both(gamepad) ==
    /\ Includes(gamepad.id, <<"Unknown", "Gamepad">>)
    /\ (Len(gamepad.axes) = 0 /\ Len(gamepad.buttons) = 0)

isInvalidGamepad(gamepad) ==
    \/ Includes(gamepad.id, <<"Unknown", "Gamepad">>)
    \/ (Len(gamepad.axes) = 0 /\ Len(gamepad.buttons) = 0)

\* gamepad.id === 'SpaceMouse' for gamepad.id.includes('SpaceMouse')
isSpaceMouse_ExactId(gamepad) == gamepad.id = <<"SpaceMouse">>

\* gamepad.id.includes('SpaceMouse')
isSpaceMouse(gamepad) == Includes(gamepad.id, <<"SpaceMouse">>)

\* isPressed with >= for >
isPressed_AtThreshold(rawBtn) ==
    IF rawBtn.typeof = "number" THEN rawBtn.value >= PressThreshold
    ELSE rawBtn.pressed

isPressed(rawBtn) ==
    IF rawBtn.typeof = "number" THEN rawBtn.value > PressThreshold
    ELSE rawBtn.pressed

----------------------------------------------------------------------------
(* Bindings, actions and action maps *)

Keyboard(code, down) == [type |-> "keyboard", code |-> code, onKeyDown |-> down]
GamepadBtn(button) == [type |-> "gamepadBtn", button |-> button]
GamepadAxis(axis) == [type |-> "gamepadAxis", axis |-> axis]
AnyGamepad == [type |-> "gamepad"]
SpaceMouse == [type |-> "spacemouse"]
\* a binding whose tag is none of the five variants
Malformed == [type |-> "touch"]

\* perform callbacks: what the callback does to the InputSystem it belongs
\* to before it returns.  A callback returns normally; the exceptions of the
\* model are the ones the InputSystem's own code raises.
PerformNothing == [does |-> "nothing"]
PerformStop == [does |-> "stop"]
PerformSetActionMap(m) == [does |-> "setActionMap", map |-> m]

Action(name, bindings, perform) ==
    [name |-> name, bindings |-> bindings, perform |-> perform]

MapBase ==
    << Action("estop", <<Keyboard("Space", TRUE), GamepadBtn(0)>>, PerformNothing),
       Action("release", <<Keyboard("Space", FALSE)>>, PerformNothing),
       Action("drive", <<AnyGamepad>>, PerformNothing),
       Action("arm", <<SpaceMouse>>, PerformNothing) >>

MapAxis ==
    << Action("aux", <<GamepadBtn(1)>>, PerformNothing),
       Action("steer", <<GamepadAxis(0), GamepadAxis(1)>>, PerformNothing),
       Action("estop", <<GamepadBtn(0), Keyboard("KeyQ", TRUE)>>, PerformNothing),
       Action("brake", <<GamepadBtn(0), AnyGamepad>>, PerformNothing) >>

MapSwitch ==
    << Action("mode", <<AnyGamepad, Keyboard("KeyQ", FALSE)>>, PerformSetActionMap("base")),
       Action("halt", <<GamepadBtn(0), Keyboard("Space", TRUE)>>, PerformStop),
       Action("estop", <<Keyboard("Space", TRUE)>>, PerformNothing) >>

MapMalformed ==
    << Action("drive", <<AnyGamepad>>, PerformNothing),
       Action("touch", <<Malformed>>, PerformNothing),
       Action("estop", <<Keyboard("Space", TRUE), GamepadBtn(0)>>, PerformNothing) >>

MapNames == {"base", "axis", "switch", "malformed"}

ActionMap(m) ==
    CASE m = "base" -> MapBase
      [] m = "axis" -> MapAxis
      [] m = "switch" -> MapSwitch
      [] m = "malformed" -> MapMalformed

ActionMaps == { ActionMap(m) : m \in MapNames }

KeyCodes == {"Space", "KeyQ"}

----------------------------------------------------------------------------
(* Contexts *)

keyboardCtx == [type |-> "keyboard"]
emptyCtx == [type |-> "none"]

\* what a checkBinding callback hands back: [canPerform, context], or an
\* exception thrown while evaluating it or while destructuring its result.
\* object says which object the context is: <<>> for the object literal the
\* callback builds for this return, else the name of the existing object
\* it hands out.
Returns(canPerform, context) ==
    [threw |-> FALSE, canPerform |-> canPerform, context |-> context,
     object |-> <<>>]
ReturnsObject(canPerform, context, object) ==
    [threw |-> FALSE, canPerform |-> canPerform, context |-> context,
     object |-> object]
Throws == [threw |-> TRUE, canPerform |-> FALSE, context |-> emptyCtx,
           object |-> <<>>]

\* the module constant keyboardCtx, and the gamepadCtx updateGamepad builds
\* for slot i before it checks the bindings
KeyboardCtxObject == <<"keyboardCtx">>
GamepadCtxObject(i) == <<"gamepadCtx", i>>

GamepadStateOf(gamepad, prev, i) ==
    [gamepad |-> gamepad, prevGamepad |-> prev, index |-> i]

GamepadCtx(gamepad, prev, i) ==
    [type |-> "gamepad", id |-> gamepad.id,
     gamepadState |-> GamepadStateOf(gamepad, prev, i)]

\* { ...gamepadCtx, type: 'gamepadAxis', value }
AxisCtx(gamepadCtx, value) ==
    [type |-> "gamepadAxis", id |-> gamepadCtx.id,
     gamepadState |-> gamepadCtx.gamepadState, value |-> value]

\* { ...gamepadCtx, type: 'gamepadBtn' }
BtnCtx(gamepadCtx) ==
    [type |-> "gamepadBtn", id |-> gamepadCtx.id,
     gamepadState |-> gamepadCtx.gamepadState]

\* { ...gamepadCtx, type: 'spacemouse', axes: [...axes], buttons: [...buttons] }
SpaceMouseCtx(gamepadCtx) ==
    [type |-> "spacemouse", id |-> gamepadCtx.id,
     gamepadState |-> gamepadCtx.gamepadState,
     axes |-> gamepadCtx.gamepadState.gamepad.axes,
     buttons |-> gamepadCtx.gamepadState.gamepad.buttons]

----------------------------------------------------------------------------
(* Binding evaluation *)

\* The callback updateGamepad hands to checkActionsBindings for the device
\* in slot i; history is this.lastGamepad as it is when the binding is checked.
checkGamepadBinding(b, gamepad, i, history) ==
    LET gamepadCtx == GamepadCtx(gamepad, history[i], i) IN
    CASE b.type = "gamepad" ->
            IF isSpaceMouse(gamepad)
            THEN Returns(FALSE, emptyCtx)
            ELSE ReturnsObject(TRUE, gamepadCtx, GamepadCtxObject(i))
      [] b.type = "keyboard" -> Returns(FALSE, emptyCtx)
      [] b.type = "gamepadAxis" ->
            \* this.lastGamepad[i].axes: a TypeError when the slot has no history
            IF history[i] = <<>> THEN Throws
            ELSE LET value == At(gamepad.axes, b.axis) IN
                 IF value # At(history[i][1].axes, b.axis)
                 THEN Returns(TRUE, AxisCtx(gamepadCtx, At(gamepad.axes, b.axis)))
                 ELSE Returns(FALSE, emptyCtx)
      [] b.type = "gamepadBtn" ->
            LET btn == At(gamepad.buttons, b.button)
                \* this.lastGamepad[i]?.buttons[b.button]
                lastBtn == IF history[i] = <<>> THEN <<>>
                           ELSE At(history[i][1].buttons, b.button)
                currentlyPressed == btn # <<>> /\ isPressed(btn[1])
                pressedLastUpdate == lastBtn # <<>> /\ isPressed(lastBtn[1])
            IN IF currentlyPressed /\ ~pressedLastUpdate
               THEN Returns(TRUE, BtnCtx(gamepadCtx))
               ELSE Returns(FALSE, emptyCtx)
      [] b.type = "spacemouse" ->
            IF isSpaceMouse(gamepad)
            THEN Returns(TRUE, SpaceMouseCtx(gamepadCtx))
            ELSE Returns(FALSE, emptyCtx)
      \* no case of the switch: the callback returns undefined, and
      \* destructuring it in checkActionsBindings throws
      [] OTHER -> Throws

\* The callback of onKeyDown for the event code.
checkKeyDownBinding(b, code) ==
    IF b.type # "keyboard" THEN Returns(FALSE, emptyCtx)
    ELSE IF b.onKeyDown /\ b.code = code THEN ReturnsObject(TRUE, keyboardCtx, KeyboardCtxObject)
    ELSE Returns(FALSE, emptyCtx)

\* onKeyUp's callback without the test of b.onKeyDown
checkKeyUpBinding_AnyEdge(b, code) ==
    IF b.type # "keyboard" THEN Returns(FALSE, emptyCtx)
    ELSE IF b.code = code THEN ReturnsObject(TRUE, keyboardCtx, KeyboardCtxObject)
    ELSE Returns(FALSE, emptyCtx)

\* The callback of onKeyUp for the event code.
checkKeyUpBinding(b, code) ==
    IF b.type # "keyboard" THEN Returns(FALSE, emptyCtx)
    ELSE IF ~b.onKeyDown /\ b.code = code THEN ReturnsObject(TRUE, keyboardCtx, KeyboardCtxObject)
    ELSE Returns(FALSE, emptyCtx)

\* The three closures as data: m.on says which callback, the rest is what
\* the closure captured.
checkBinding(m, b, history) ==
    CASE m.on = "frame" -> checkGamepadBinding(b, m.gamepad, m.index, history)
      [] m.on = "keydown" -> checkKeyDownBinding(b, m.code)
      [] m.on = "keyup" -> checkKeyUpBinding(b, m.code)

----------------------------------------------------------------------------
(* The running computation of one handler.  st holds the fields a handler  *)
(* reads and writes, and what the pass did:                                *)
(*   threw  an exception is propagating out of the handler                 *)
(*   used   slot -> <<>> or <<the action list checkActionsBindings walked>>*)
(*   done   the slots whose history was written                            *)
(*   log    the perform invocations, in order                              *)
(*   stopped  stop() was called during the handler                         *)
(*   requested  requestAnimationFrame calls made by the handler            *)
(*   sampled  updateGamepad was entered                                    *)
(* No handler of the InputSystem calls mapGamepadToJoy.                    *)

stop(st) == [st EXCEPT !.isRunning = FALSE, !.stopped = TRUE]

setActionMap(st, newActions) == [st EXCEPT !.actions = newActions]

\* action.perform(context): the invocation is logged, then the callback runs.
\* The n-th invocation of a pass that is handed a new object is handed
\* <<"new", n>>.
perform(st, action, a, b, slot, context, object) ==
    LET entry == [name |-> action.name, a |-> a, b |-> b, slot |-> slot,
                  context |-> context,
                  object |-> IF object = <<>> THEN <<"new", Len(st.log) + 1>>
                             ELSE object]
        st1 == [st EXCEPT !.log = Append(@, entry)]
    IN CASE action.perform.does = "nothing" -> st1
         [] action.perform.does = "stop" -> stop(st1)
         [] action.perform.does = "setActionMap" ->
                setActionMap(st1, ActionMap(action.perform.map))

\* the loops leaving an action at its first matching binding
RECURSIVE checkFrom_OncePerAction(_, _, _, _, _)
checkFrom_OncePerAction(st, list, a, b, m) ==
    IF st.threw \/ a > Len(list) THEN st
    ELSE IF b > Len(list[a].bindings)
         THEN checkFrom_OncePerAction(st, list, a + 1, 1, m)
    ELSE LET r == checkBinding(m, list[a].bindings[b], st.lastGamepad)
             slot == IF m.on = "frame" THEN m.index ELSE -1
         IN IF r.threw THEN [st EXCEPT !.threw = TRUE]
            ELSE IF r.canPerform
                 THEN checkFrom_OncePerAction(
                          perform(st, list[a], a, b, slot, r.context, r.object),
                          list, a + 1, 1, m)
                 ELSE checkFrom_OncePerAction(st, list, a, b + 1, m)

\* The two nested loops of checkActionsBindings over the list it started
\* with, from binding b of action a on.
RECURSIVE checkFrom(_, _, _, _, _)
checkFrom(st, list, a, b, m) ==
    IF st.threw \/ a > Len(list) THEN st
    ELSE IF b > Len(list[a].bindings) THEN checkFrom(st, list, a + 1, 1, m)
    ELSE LET r == checkBinding(m, list[a].bindings[b], st.lastGamepad)
             slot == IF m.on = "frame" THEN m.index ELSE -1
         IN IF r.threw THEN [st EXCEPT !.threw = TRUE]
            ELSE IF r.canPerform
                 THEN checkFrom(perform(st, list[a], a, b, slot, r.context, r.object),
                                list, a, b + 1, m)
                 ELSE checkFrom(st, list, a, b + 1, m)

\* for (const action of this.actions): the list is read once, at the start.
checkActionsBindings(st, m) == checkFrom(st, st.actions, 1, 1, m)

\* the loop body with the history written before the bindings are checked
updateSlot_WriteFirst(st, gamepads, i) ==
    LET gamepad == IF (i + 1) \in DOMAIN gamepads THEN gamepads[i + 1] ELSE <<>>
    IN IF gamepad = <<>> \/ isInvalidGamepad(gamepad[1]) THEN st
       ELSE LET st0 == [st EXCEPT !.used[i] = <<st.actions>>,
                                  !.lastTimestamp[i] = <<gamepad[1].timestamp>>,
                                  !.lastGamepad[i] = gamepad]
                st1 == checkActionsBindings(st0,
                          [on |-> "frame", gamepad |-> gamepad[1], index |-> i])
            IN IF st1.threw THEN st1
               ELSE [st1 EXCEPT !.done = @ \cup {i}]

\* The body of updateGamepad's loop for slot i.
updateSlot(st, gamepads, i) ==
    LET gamepad == IF (i + 1) \in DOMAIN gamepads THEN gamepads[i + 1] ELSE <<>>
    IN IF gamepad = <<>> \/ isInvalidGamepad(gamepad[1]) THEN st
       ELSE LET st0 == [st EXCEPT !.used[i] = <<st.actions>>]
                st1 == checkActionsBindings(st0,
                          [on |-> "frame", gamepad |-> gamepad[1], index |-> i])
            IN IF st1.threw THEN st1
               ELSE [st1 EXCEPT !.lastTimestamp[i] = <<gamepad[1].timestamp>>,
                                !.lastGamepad[i] = gamepad,
                                !.done = @ \cup {i}]

\* for (let i = 0; i <= gamepads.length; i++)
RECURSIVE updateFrom(_, _, _)
updateFrom(st, gamepads, i) ==
    IF st.threw \/ i > Len(gamepads) THEN st
    ELSE updateFrom(updateSlot(st, gamepads, i), gamepads, i + 1)

updateGamepad(st, gamepads) == updateFrom(st, gamepads, 0)

\* update() testing isRunning again before it requests the frame
update_RecheckRunning(st, gamepads) ==
    IF st.isRunning
    THEN LET st1 == updateGamepad([st EXCEPT !.sampled = TRUE], gamepads)
         IN IF st1.threw \/ ~st1.isRunning THEN st1
            ELSE [st1 EXCEPT !.requested = @ + 1]
    ELSE st

\* update(): one sampling pass and the request for the next frame.
update(st, gamepads) ==
    IF st.isRunning
    THEN LET st1 == updateGamepad([st EXCEPT !.sampled = TRUE], gamepads)
         IN IF st1.threw THEN st1
            ELSE [st1 EXCEPT !.requested = @ + 1]
    ELSE st

\* start() without the isBrowserSupported test
start_Unguarded(st, supported, gamepads) ==
    IF ~st.isRunning
    THEN update([st EXCEPT !.isRunning = TRUE], gamepads)
    ELSE st

start(st, supported, gamepads) ==
    IF supported /\ ~st.isRunning
    THEN update([st EXCEPT !.isRunning = TRUE], gamepads)
    ELSE st

----------------------------------------------------------------------------
(* The state machine *)

NoSlots == [i \in Slots |-> <<>>]

\* The fields as a handler finds them.
Begin ==
    [isRunning |-> isRunning, actions |-> actions,
     lastTimestamp |-> lastTimestamp, lastGamepad |-> lastGamepad,
     threw |-> FALSE, used |-> NoSlots, done |-> {}, log |-> <<>>,
     stopped |-> FALSE, requested |-> 0, sampled |-> FALSE]

\* What the handler op left behind: the fields, and the record of the pass.
Commit(st, op, code, gamepads) ==
    /\ isRunning' = st.isRunning
    /\ actions' = st.actions
    /\ lastTimestamp' = st.lastTimestamp
    /\ lastGamepad' = st.lastGamepad
    /\ log' = st.log
    /\ dispatched' = st.log
    /\ UNCHANGED <<joySeqId, joy>>
    /\ processedSample' = [i \in Slots |-> IF i \in st.done THEN gamepads[i + 1]
                                            ELSE processedSample[i]]
    /\ pass' = [op |-> op, code |-> code,
                before |-> IF st.sampled \/ op \in {"keydown", "keyup"}
                           THEN actions ELSE <<>>,
                gamepads |-> IF st.sampled THEN gamepads ELSE <<>>,
                used |-> st.used, done |-> st.done, threw |-> st.threw,
                sampled |-> st.sampled, requested |-> st.requested]

\* new InputSystem(actions), in a browser with or without navigator.getGamepads
Init ==
    /\ isBrowserSupported \in BOOLEAN
    /\ listening = isBrowserSupported
    /\ isRunning = FALSE
    /\ actions \in ActionMaps
    /\ lastTimestamp = NoSlots
    /\ lastGamepad = NoSlots
    /\ pending = 0
    /\ processedSample = NoSlots
    /\ pass = [op |-> "new", code |-> "", before |-> <<>>,
               gamepads |-> <<>>, used |-> NoSlots,
               done |-> {}, threw |-> FALSE, sampled |-> FALSE, requested |-> 0]
    /\ log = <<>>
    /\ dispatched = <<>>
    /\ startStreak = 0
    /\ afterStop = FALSE
    /\ ticksSinceStop = 0
    /\ joySeqId = 0
    /\ joy = <<>>

\* inputSystem.start(), with what navigator.getGamepads() returns during it
Start ==
    \E gamepads \in (IF ~isRunning THEN GamepadArrays ELSE {<<>>}) :
        \E st \in {start(Begin, isBrowserSupported, gamepads)} :
        /\ pending + st.requested <= MaxPending
        /\ Commit(st, "start", "", gamepads)
        /\ pending' = pending + st.requested
        /\ startStreak' = IF st.stopped THEN 0
                          ELSE IF startStreak < 2 THEN startStreak + 1 ELSE 2
        /\ afterStop' = st.stopped
        /\ ticksSinceStop' = 0
        /\ UNCHANGED <<isBrowserSupported, listening>>

\* inputSystem.stop()
Stop ==
    /\ Commit(stop(Begin), "stop", "", <<>>)
    /\ startStreak' = 0
    /\ afterStop' = TRUE
    /\ ticksSinceStop' = 0
    /\ UNCHANGED <<isBrowserSupported, listening, pending>>

\* inputSystem.setActionMap(actions)
SetActionMap ==
    \E m \in MapNames :
        /\ Commit(setActionMap(Begin, ActionMap(m)), "setActionMap", "", <<>>)
        /\ startStreak' = 0
        /\ UNCHANGED <<isBrowserSupported, listening, pending, afterStop,
                       ticksSinceStop>>

\* The browser runs one pending frame callback: update().
FrameTick ==
    /\ pending > 0
    /\ \E gamepads \in (IF isRunning THEN GamepadArrays ELSE {<<>>}) :
        \E st \in {update(Begin, gamepads)} :
        /\ Commit(st, "tick", "", gamepads)
        /\ pending' = (pending - 1) + st.requested
        /\ startStreak' = 0
        /\ afterStop' = (afterStop \/ st.stopped)
        /\ ticksSinceStop' = IF st.stopped THEN 0
                             ELSE IF afterStop /\ ticksSinceStop < 2
                                  THEN ticksSinceStop + 1
                                  ELSE ticksSinceStop
        /\ UNCHANGED <<isBrowserSupported, listening>>

\* onKeyDown handling the event only while the poller is running
KeyDown_WhileRunning ==
    /\ listening
    /\ isRunning
    /\ \E code \in KeyCodes :
        \E st \in {checkActionsBindings(Begin, [on |-> "keydown", code |-> code])} :
        /\ Commit(st, "keydown", code, <<>>)
        /\ startStreak' = 0
        /\ afterStop' = (afterStop \/ st.stopped)
        /\ ticksSinceStop' = IF st.stopped THEN 0 ELSE ticksSinceStop
        /\ UNCHANGED <<isBrowserSupported, listening, pending>>

\* A keydown event reaches onKeyDown.
KeyDown ==
    /\ listening
    /\ \E code \in KeyCodes :
        \E st \in {checkActionsBindings(Begin, [on |-> "keydown", code |-> code])} :
        /\ Commit(st, "keydown", code, <<>>)
        /\ startStreak' = 0
        /\ afterStop' = (afterStop \/ st.stopped)
        /\ ticksSinceStop' = IF st.stopped THEN 0 ELSE ticksSinceStop
        /\ UNCHANGED <<isBrowserSupported, listening, pending>>

\* A keyup event reaches onKeyUp.
KeyUp ==
    /\ listening
    /\ \E code \in KeyCodes :
        \E st \in {checkActionsBindings(Begin, [on |-> "keyup", code |-> code])} :
        /\ Commit(st, "keyup", code, <<>>)
        /\ startStreak' = 0
        /\ afterStop' = (afterStop \/ st.stopped)
        /\ ticksSinceStop' = IF st.stopped THEN 0 ELSE ticksSinceStop
        /\ UNCHANGED <<isBrowserSupported, listening, pending>>

Next == Start \/ Stop \/ SetActionMap \/ FrameTick \/ KeyDown \/ KeyUp

Spec == Init /\ [][Next]_vars

----------------------------------------------------------------------------
(* A test that keeps hold of the device objects it handed to the poller    *)
(* and writes to them after the dispatch.  The device of slot i is the     *)
(* object lastGamepad[i] refers to; every context of the last pass refers  *)
(* to it through gamepadState.gamepad, and a spacemouse context holds its  *)
(* own array of the same button objects.  The test writes to the devices   *)
(* it received a spacemouse context for.                                   *)

\* the last pass delivered a spacemouse context for slot i
Delivered(i) ==
    \E k \in DOMAIN log : log[k].slot = i /\ log[k].context.type = "spacemouse"

\* The contexts of slot i after a write to its device: gamepadState.gamepad
\* is the device itself; buttons, when the context has its own array, holds
\* the device's button objects; axes holds numbers of its own.
AfterWrite(entries, i, device, sharesButtons) ==
    [k \in DOMAIN entries |->
        IF entries[k].slot # i THEN entries[k]
        ELSE LET c == entries[k].context
                 c1 == [c EXCEPT !.gamepadState.gamepad = device]
             IN [entries[k] EXCEPT !.context =
                    IF c.type = "spacemouse" /\ sharesButtons
                    THEN [c1 EXCEPT !.buttons = device.buttons]
                    ELSE c1]]

\* gamepad.axes[0] = v on the device of a slot evaluated in the last pass
WriteAxis ==
    \E i \in Slots, v \in {20, 50} :
        /\ i \in pass.done
        /\ Delivered(i)
        /\ lastGamepad[i] # <<>>
        /\ Len(lastGamepad[i][1].axes) > 0
        /\ lastGamepad[i][1].axes[1] # v
        /\ LET device == [lastGamepad[i][1] EXCEPT !.axes[1] = v] IN
            /\ lastGamepad' = [lastGamepad EXCEPT ![i] = <<device>>]
            /\ log' = AfterWrite(log, i, device, FALSE)
        /\ UNCHANGED <<isBrowserSupported, listening, isRunning, actions,
                       lastTimestamp, pending, pass, dispatched,
                       processedSample, startStreak, afterStop, ticksSinceStop,
                       joySeqId, joy>>

\* gamepad.buttons[0].pressed = !pressed on the device of such a slot
WriteButton ==
    \E i \in Slots :
        /\ i \in pass.done
        /\ Delivered(i)
        /\ lastGamepad[i] # <<>>
        /\ Len(lastGamepad[i][1].buttons) > 0
        /\ lastGamepad[i][1].buttons[1].typeof = "object"
        /\ LET device == [lastGamepad[i][1] EXCEPT
                             !.buttons[1].pressed = ~@] IN
            /\ lastGamepad' = [lastGamepad EXCEPT ![i] = <<device>>]
            /\ log' = AfterWrite(log, i, device, TRUE)
        /\ UNCHANGED <<isBrowserSupported, listening, isRunning, actions,
                       lastTimestamp, pending, pass, dispatched,
                       processedSample, startStreak, afterStop, ticksSinceStop,
                       joySeqId, joy>>

InitLive == Init /\ isBrowserSupported /\ actions = MapBase

NextLive == Start \/ Stop \/ FrameTick \/ WriteAxis \/ WriteButton

SpecLive == InitLive /\ [][NextLive]_vars

----------------------------------------------------------------------------
(* Vocabulary of the properties *)

\* the words pat occur in id, in this order and next to each other
Contains(id, pat) ==
    \E k \in 1 .. Len(id) :
        /\ k + Len(pat) - 1 <= Len(id)
        /\ SubSeq(id, k, k + Len(pat) - 1) = pat

\* how often the last pass invoked perform for binding b of action a on
\* behalf of slot (-1: a keyboard event)
Fired(slot, a, b) ==
    Cardinality({ k \in DOMAIN log :
        log[k].slot = slot /\ log[k].a = a /\ log[k].b = b })

\* the last handler ran a sampling pass and completed slot i in it
Processed(i) == pass.sampled /\ i \in pass.done

OneIf(cond) == IF cond THEN 1 ELSE 0

----------------------------------------------------------------------------
(* C1: in a supported browser, after two start() calls in a row, with no   *)
(* stop() between them or inside them, exactly one polling loop is active: *)
(* the poller is running and exactly one frame callback is pending.        *)
C1_DoubleStartOneLoop ==
    (isBrowserSupported /\ startStreak = 2) => (isRunning /\ pending = 1)

(* C2: without navigator.getGamepads at construction the poller stays      *)
(* disabled whatever is called later: isRunning is false, no sampling pass *)
(* has run and no frame callback has been requested or is pending.         *)
C2_UnsupportedNeverPolls ==
    ~isBrowserSupported =>
        /\ ~isRunning
        /\ pending = 0
        /\ ~pass.sampled
        /\ pass.requested = 0

\* start() was called twice in a row in the unsupported browser
C2_Witness == ~isBrowserSupported /\ pass.op = "start" /\ startStreak = 2

\* the sample (<<>> or <<g>>) reports button b pressed: the button is
\* there, and its pressed flag is true or, a bare number, it is above 0.1
ReportsPressed(sample, b) ==
    /\ sample # <<>>
    /\ (b + 1) \in DOMAIN sample[1].buttons
    /\ LET btn == sample[1].buttons[b + 1] IN
          \/ btn.typeof = "object" /\ btn.pressed
          \/ btn.typeof = "number" /\ btn.value > 10

\* the value of axis a in the sample: <<>> when there is none
AxisValue(sample, a) ==
    IF sample # <<>> /\ (a + 1) \in DOMAIN sample[1].axes
    THEN <<sample[1].axes[a + 1]>> ELSE <<>>

\* the bindings of a list, as (action, binding) places
Places(list) ==
    { p \in (DOMAIN list) \X (1 .. 2) : p[2] \in DOMAIN list[p[1]].bindings }

(* C3: on a processed frame of a slot a gamepadBtn binding on button b is  *)
(* performed once if the current sample reports b pressed and the previous *)
(* processed sample of the slot did not, and not at all otherwise (held,   *)
(* released, absent in either sample).                                     *)
C3_RisingEdgeOnly ==
    [][\A i \in Slots : Processed(i)' =>
        \A p \in Places(pass'.used[i][1]) :
            LET bd == pass'.used[i][1][p[1]].bindings[p[2]] IN
            bd.type = "gamepadBtn" =>
                Fired(i, p[1], p[2])' =
                    OneIf(/\ ReportsPressed(pass'.gamepads[i + 1], bd.button)
                          /\ ~ReportsPressed(processedSample[i], bd.button))]_vars

\* second frame of unpressed, pressed: the binding has just fired against a
\* previous sample that has the button, unpressed
C3_Witness ==
    \E k \in DOMAIN log :
        /\ log[k].context.type = "gamepadBtn"
        /\ Processed(log[k].slot)
        /\ log[k].context.gamepadState.prevGamepad # <<>>
        /\ Len(log[k].context.gamepadState.prevGamepad[1].buttons) > 0
        /\ ReportsPressed(pass.gamepads[log[k].slot + 1], 0)

(* C4: a gamepadAxis binding on axis a is evaluated on every frame of a    *)
(* valid device, the first one after start() included: the frame is        *)
(* processed, and the binding is performed once, with the new value, if    *)
(* the value of axis a differs from that of the previous processed frame   *)
(* of the slot, and not at all otherwise.                                  *)
C4_AxisChangeDispatch ==
    [][\A i \in Slots : (pass'.sampled /\ pass'.used[i] # <<>>) =>
        \A p \in Places(pass'.used[i][1]) :
            LET bd == pass'.used[i][1][p[1]].bindings[p[2]]
                now == AxisValue(pass'.gamepads[i + 1], bd.axis)
            IN bd.type = "gamepadAxis" =>
                /\ i \in pass'.done
                /\ Fired(i, p[1], p[2])' =
                       OneIf(now # AxisValue(processedSample[i], bd.axis))
                /\ \A k \in DOMAIN log' :
                       (log'[k].slot = i /\ log'[k].a = p[1] /\ log'[k].b = p[2])
                           => log'[k].context.value = now]_vars

(* C5: in a sampling pass no perform is invoked on behalf of a slot that   *)
(* is empty, or whose device has no axes and no buttons, or whose id       *)
(* contains 'Unknown Gamepad'; such a slot is not evaluated at all.        *)
C5_InvalidSlotsNeverEvaluated ==
    pass.sampled =>
        \A i \in Slots :
            LET sample == pass.gamepads[i + 1]
                noise == \/ sample = <<>>
                         \/ Len(sample[1].axes) = 0 /\ Len(sample[1].buttons) = 0
                         \/ Contains(sample[1].id, <<"Unknown", "Gamepad">>)
            IN noise =>
                /\ pass.used[i] = <<>>
                /\ i \notin pass.done
                /\ \A k \in DOMAIN log : log[k].slot # i

\* a pass over a device without axes and buttons in slot 0 and a real one
\* in slot 1, with bindings that fired for slot 1
C5_Witness ==
    /\ pass.sampled
    /\ pass.gamepads[1] # <<>>
    /\ Len(pass.gamepads[1][1].axes) = 0
    /\ Len(pass.gamepads[1][1].buttons) = 0
    /\ \E k \in DOMAIN log : log[k].slot = 1

(* C6: a keydown event with code c performs exactly the keyboard bindings  *)
(* with code c and onKeyDown true, a keyup event exactly those with code c *)
(* and onKeyDown not true, each once and with the context                  *)
(* {type: 'keyboard'}; no other binding is performed.                      *)
C6_KeyboardEdgeRouting ==
    pass.op \in {"keydown", "keyup"} =>
        /\ \A p \in Places(pass.before) :
              LET bd == pass.before[p[1]].bindings[p[2]] IN
              Fired(-1, p[1], p[2]) =
                  OneIf(/\ bd.type = "keyboard"
                        /\ bd.code = pass.code
                        /\ bd.onKeyDown = (pass.op = "keydown"))
        /\ \A k \in DOMAIN log :
              /\ log[k].slot = -1
              /\ <<log[k].a, log[k].b>> \in Places(pass.before)
              /\ log[k].context = [type |-> "keyboard"]

\* keyup of Space with the list that binds Space on both edges: only the
\* key-up binding was performed
C6_Witness ==
    /\ pass.op = "keyup"
    /\ pass.code = "Space"
    /\ pass.before = MapBase
    /\ Len(log) = 1
    /\ log[1].name = "release"

(* C7: on every processed frame of a slot a 'gamepad' binding is performed *)
(* once if the device id does not contain 'SpaceMouse' and not at all if   *)
(* it does, and a 'spacemouse' binding the other way round, whether or not *)
(* the sample changed since the previous frame.                            *)
C7_SpecializedDeviceExclusive ==
    \A i \in Slots : Processed(i) =>
        \A p \in Places(pass.used[i][1]) :
            LET bd == pass.used[i][1][p[1]].bindings[p[2]]
                special == Contains(pass.gamepads[i + 1][1].id, <<"SpaceMouse">>)
            IN /\ bd.type = "gamepad" => Fired(i, p[1], p[2]) = OneIf(~special)
               /\ bd.type = "spacemouse" => Fired(i, p[1], p[2]) = OneIf(special)

\* a SpaceMouse frame whose sample is the previous frame's, evaluated
\* against a list with both kinds of binding
C7_Witness ==
    /\ Processed(0)
    /\ pass.used[0] = <<MapBase>>
    /\ \E k \in DOMAIN log :
          /\ log[k].context.type = "spacemouse"
          /\ log[k].context.gamepadState.prevGamepad = pass.gamepads[1]

(* C8: the axes and buttons of a delivered 'spacemouse' context keep the   *)
(* values they had at dispatch, whatever is written afterwards to the      *)
(* device's axis values, button samples or the fields of a button.         *)
C8_SnapshotIsolation ==
    \A k \in DOMAIN log :
        log[k].context.type = "spacemouse" =>
            /\ log[k].context.axes = dispatched[k].context.axes
            /\ log[k].context.buttons = dispatched[k].context.buttons

(* C9: once stop() has been called and start() not again, at most one more *)
(* frame callback runs; it samples nothing, performs nothing and requests  *)
(* no frame, and no frame callback is pending after it.                    *)
C9_StopsWithinOneFrame ==
    (afterStop /\ pass.op = "tick" /\ ticksSinceStop >= 1) =>
        /\ ticksSinceStop = 1
        /\ ~pass.sampled
        /\ log = <<>>
        /\ pass.requested = 0
        /\ pending = 0

(* C10: every evaluation pass evaluates one single action list, the one    *)
(* set when the pass began: all slots of a frame are checked against it,   *)
(* also when a perform callback calls setActionMap during the pass.        *)
C10_OneListPerPass ==
    pass.sampled =>
        \A i \in Slots : pass.used[i] # <<>> => pass.used[i][1] = pass.before

\* the tags the switch of updateGamepad's callback has a case for
KnownTag(bd) ==
    bd.type \in {"keyboard", "gamepad", "gamepadAxis", "gamepadBtn", "spacemouse"}

HasUnknownTag(list) ==
    \E p \in Places(list) : ~KnownTag(list[p[1]].bindings[p[2]])

HasTag(list, tag) ==
    \E p \in Places(list) : list[p[1]].bindings[p[2]].type = tag

(* C11: a binding whose tag is none of the five variants fails closed in   *)
(* every pass: it is never performed, and a key event or a frame over a    *)
(* list that holds one (and no gamepadAxis binding) raises no error: the   *)
(* slot's evaluation completes, its history is written and the frame       *)
(* requests the next one.                                                  *)
C11_UnknownTagFailsClosed ==
    /\ pass.op \in {"keydown", "keyup"} =>
          /\ ~pass.threw
          /\ \A k \in DOMAIN log :
                KnownTag(pass.before[log[k].a].bindings[log[k].b])
    /\ pass.sampled =>
          \A i \in Slots :
              (/\ pass.used[i] # <<>>
               /\ HasUnknownTag(pass.used[i][1])
               /\ ~HasTag(pass.used[i][1], "gamepadAxis")) =>
                  /\ ~pass.threw
                  /\ i \in pass.done
                  /\ pass.requested = 1
                  /\ \A k \in DOMAIN log :
                        log[k].slot = i =>
                            KnownTag(pass.used[i][1][log[k].a].bindings[log[k].b])

(* C12: the first frame of a slot, when the slot has no history yet, is    *)
(* evaluated without error for every kind of binding, the missing history  *)
(* counting as not pressed and as zero: a gamepadBtn binding is performed  *)
(* iff its button is pressed now, a gamepadAxis binding iff its axis is    *)
(* not zero now, and the frame ends by storing the slot's history.         *)
C12_FirstFrameEvaluates ==
    [][\A i \in Slots :
        (/\ pass'.sampled
         /\ pass'.used[i] # <<>>
         /\ lastGamepad[i] = <<>>
         /\ ~HasUnknownTag(pass'.used[i][1])) =>
            /\ ~pass'.threw
            /\ i \in pass'.done
            /\ lastGamepad'[i] = pass'.gamepads[i + 1]
            /\ \A p \in Places(pass'.used[i][1]) :
                  LET bd == pass'.used[i][1][p[1]].bindings[p[2]] IN
                  /\ bd.type = "gamepadBtn" =>
                        Fired(i, p[1], p[2])' =
                            OneIf(ReportsPressed(pass'.gamepads[i + 1], bd.button))
                  /\ bd.type = "gamepadAxis" =>
                        Fired(i, p[1], p[2])' =
                            OneIf(AxisValue(pass'.gamepads[i + 1], bd.axis)
                                      \notin {<<>>, <<0>>})]_vars

\* bindings p and q of the list read the same button, or the same axis
SameIndex(list, p, q) ==
    LET bp == list[p[1]].bindings[p[2]]
        bq == list[q[1]].bindings[q[2]]
    IN \/ bp.type = "gamepadBtn" /\ bq.type = "gamepadBtn" /\ bp.button = bq.button
       \/ bp.type = "gamepadAxis" /\ bq.type = "gamepadAxis" /\ bp.axis = bq.axis

(* C13: the history of a slot is written by the processed frames of the    *)
(* slot and by nothing else, after the bindings were evaluated: a          *)
(* processed frame leaves the frame's sample and timestamp in it, any      *)
(* other step leaves it alone; every context dispatched for the slot shows *)
(* as previous sample the sample of the latest processed frame before this *)
(* one; and the gamepadBtn (gamepadAxis) bindings on one index, in         *)
(* whatever actions, fire together or not at all.                          *)
C13_HistoryOncePerFrame ==
    [][\A i \in Slots :
        /\ lastGamepad[i] = processedSample[i]
        /\ IF Processed(i)'
           THEN /\ lastGamepad'[i] = pass'.gamepads[i + 1]
                /\ lastTimestamp'[i] = <<pass'.gamepads[i + 1][1].timestamp>>
           ELSE /\ lastGamepad'[i] = lastGamepad[i]
                /\ lastTimestamp'[i] = lastTimestamp[i]
        /\ \A k \in DOMAIN log' :
              log'[k].slot = i =>
                  log'[k].context.gamepadState.prevGamepad = processedSample[i]
        /\ Processed(i)' =>
              \A p, q \in Places(pass'.used[i][1]) :
                  SameIndex(pass'.used[i][1], p, q) =>
                      Fired(i, p[1], p[2])' = Fired(i, q[1], q[2])']_vars

\* a processed frame in which two gamepadBtn bindings of different actions
\* fired against a previous sample that is not the current one
C13_Witness ==
    \E k, l \in DOMAIN log :
        /\ log[k].a # log[l].a
        /\ log[k].slot = log[l].slot
        /\ Processed(log[k].slot)
        /\ log[k].context.type = "gamepadBtn"
        /\ log[l].context.type = "gamepadBtn"
        /\ log[k].context.gamepadState.prevGamepad # <<>>
        /\ log[k].context.gamepadState.prevGamepad # pass.gamepads[log[k].slot + 1]
        /\ lastGamepad[log[k].slot] = pass.gamepads[log[k].slot + 1]

\* binding bd matches a key event (op, code)
MatchesKey(bd, op, code) ==
    /\ bd.type = "keyboard"
    /\ bd.code = code
    /\ bd.onKeyDown = (op = "keydown")

\* binding bd matches the frame of a slot whose sample is cur and whose
\* previous processed sample is prev
MatchesFrame(bd, cur, prev) ==
    CASE bd.type = "gamepad" -> ~Contains(cur[1].id, <<"SpaceMouse">>)
      [] bd.type = "spacemouse" -> Contains(cur[1].id, <<"SpaceMouse">>)
      [] bd.type = "gamepadBtn" ->
            ReportsPressed(cur, bd.button) /\ ~ReportsPressed(prev, bd.button)
      [] bd.type = "gamepadAxis" ->
            AxisValue(cur, bd.axis) # AxisValue(prev, bd.axis)
      [] OTHER -> FALSE

\* how often action a was performed for the slot
Performed(slot, a) ==
    Cardinality({ k \in DOMAIN log : log[k].slot = slot /\ log[k].a = a })

\* invocation k comes before invocation l in slot, action and binding order
InListOrder(k, l) ==
    \/ log[k].slot < log[l].slot
    \/ log[k].slot = log[l].slot /\ log[k].a < log[l].a
    \/ log[k].slot = log[l].slot /\ log[k].a = log[l].a /\ log[k].b < log[l].b

(* C14: in one pass the bindings are checked one by one, in action order   *)
(* and then binding order, and perform is invoked once per matching        *)
(* binding: the invocations come in list order, each names the action of   *)
(* its binding, and an action is performed as many times as it has         *)
(* matching bindings, so not at all if it has none.                        *)
C14_OncePerMatchingBinding ==
    [][/\ \A k, l \in DOMAIN log' : k < l => InListOrder(k, l)'
       /\ pass'.op \in {"keydown", "keyup"} =>
             \A a \in DOMAIN pass'.before :
                 /\ Performed(-1, a)' =
                        Cardinality({ b \in DOMAIN pass'.before[a].bindings :
                            MatchesKey(pass'.before[a].bindings[b],
                                       pass'.op, pass'.code) })
                 /\ \A k \in DOMAIN log' :
                        log'[k].a = a => log'[k].name = pass'.before[a].name
       /\ \A i \in Slots : Processed(i)' =>
             \A a \in DOMAIN pass'.used[i][1] :
                 /\ Performed(i, a)' =
                        Cardinality({ b \in DOMAIN pass'.used[i][1][a].bindings :
                            MatchesFrame(pass'.used[i][1][a].bindings[b],
                                         pass'.gamepads[i + 1],
                                         processedSample[i]) })
                 /\ \A k \in DOMAIN log' :
                        (log'[k].slot = i /\ log'[k].a = a) =>
                            log'[k].name = pass'.used[i][1][a].name]_vars

\* a processed frame in which one action was performed for both of its
\* bindings, after an earlier action of the list that was performed once,
\* and an action with no matching binding was not performed
C14_Witness ==
    \E i \in Slots :
        /\ Processed(i)
        /\ \E a \in DOMAIN pass.used[i][1] :
              /\ Len(pass.used[i][1][a].bindings) = 2
              /\ Performed(i, a) = 2
              /\ Fired(i, a, 1) = 1
              /\ Fired(i, a, 2) = 1
        /\ \E a \in DOMAIN pass.used[i][1] : Performed(i, a) = 1
        /\ \E a \in DOMAIN pass.used[i][1] : Performed(i, a) = 0

\* the frame callback that has just run called stop() from a perform
StoppedInTick == pass.op = "tick" /\ afterStop /\ ticksSinceStop = 0

C16_FreshContextPerDispatch ==
    /\ \A k, l \in DOMAIN log : k # l => log[k].object # log[l].object
    /\ \A k \in DOMAIN log : log[k].object # KeyboardCtxObject

(* C17: whatever the interleaving of start(), stop() and frame ticks, at   *)
(* most one frame callback is pending.                                     *)
C17_AtMostOnePending == pending <= 1

(* C18: whenever the poller is running (between handlers, so no tick is    *)
(* executing) a frame callback is pending: the loop does not end on its    *)
(* own.                                                                    *)
C18_RunningImpliesPending == isRunning => pending >= 1

(* C19: where navigator.getGamepads exists the key handlers are subscribed *)
(* and stay so: in every state, running or not, a keydown and a keyup      *)
(* event are handled, and the pass performs every keyboard binding that    *)
(* matches the event.  Where it does not exist they are not subscribed: no *)
(* key event is handled and nothing is ever performed.                     *)
C19_KeyboardIndependentOfRunning ==
    /\ isBrowserSupported =>
          /\ listening
          /\ ENABLED KeyDown
          /\ ENABLED KeyUp
          /\ pass.op \in {"keydown", "keyup"} =>
                \A p \in Places(pass.before) :
                    MatchesKey(pass.before[p[1]].bindings[p[2]],
                               pass.op, pass.code) =>
                        \E k \in DOMAIN log :
                            /\ log[k].a = p[1]
                            /\ log[k].b = p[2]
                            /\ log[k].context.type = "keyboard"
    /\ ~isBrowserSupported =>
          /\ ~listening
          /\ pass.op \notin {"keydown", "keyup"}
          /\ log = <<>>

\* a key event performed a binding after stop() was called and the loop
\* had run out
C19_Witness ==
    /\ isBrowserSupported
    /\ ~isRunning
    /\ afterStop
    /\ ticksSinceStop >= 1
    /\ pending = 0
    /\ pass.op \in {"keydown", "keyup"}
    /\ log # <<>>

----------------------------------------------------------------------------
(* mapGamepadToJoy (src/utils/gamepad/GamepadUtils.ts, lines 1-19): the    *)
(* conversion of a gamepad sample to a joy message, and the module's       *)
(* sequence counter.  Axis and button values are in hundredths, the clock  *)
(* in milliseconds.                                                        *)

\* cap on the calls of mapGamepadToJoy in a run
MaxJoyCalls == 3

\* x < 0.09
Deadzone == 9

JoyAxisValues == {-50, 8, 9, 20}

JoyAxes ==
    {<<>>} \cup { <<x>> : x \in JoyAxisValues }
           \cup { <<x, y>> : x \in JoyAxisValues, y \in JoyAxisValues }

JoyButtons ==
    { <<>>, <<BtnObj(FALSE, 0)>>, <<BtnObj(TRUE, 100), BtnObj(FALSE, 50)>> }

JoyGamepads == { Pad(IdXbox, a, b, 1) : a \in JoyAxes, b \in JoyButtons }

\* d.getTime()
JoyClock == {1499, 1500}

\* Math.round(n / d) for d > 0: the nearest integer, a half going up
Round(n, d) == (2 * n + d) \div (2 * d)

\* ~~v for a value v given in hundredths: the integer part, toward zero
ToInt32(v) == IF v >= 0 THEN v \div 100 ELSE -((-v) \div 100)

\* the deadzone taken on the absolute value
mapGamepadToJoy_AbsDeadzone(gamepad, now, seqId) ==
    [msg |->
        [header |-> [seq |-> seqId,
                     stamp |-> [sec |-> Round(now, 1000), nsecs |-> 0],
                     frame_id |-> ""],
         axes |-> [k \in DOMAIN gamepad.axes |->
                      IF gamepad.axes[k] < Deadzone /\ -gamepad.axes[k] < Deadzone
                      THEN 0 ELSE gamepad.axes[k]],
         buttons |-> [k \in DOMAIN gamepad.buttons |->
                         ToInt32(gamepad.buttons[k].value)]],
     joySeqId |-> seqId + 1]

\* mapGamepadToJoy(gamepad) called at time now with the counter at seqId:
\* the message returned and the counter afterwards (seq: joySeqId++)
mapGamepadToJoy(gamepad, now, seqId) ==
    [msg |->
        [header |-> [seq |-> seqId,
                     stamp |-> [sec |-> Round(now, 1000), nsecs |-> 0],
                     frame_id |-> ""],
         axes |-> [k \in DOMAIN gamepad.axes |->
                      IF gamepad.axes[k] < Deadzone THEN 0 ELSE gamepad.axes[k]],
         buttons |-> [k \in DOMAIN gamepad.buttons |->
                         ToInt32(gamepad.buttons[k].value)]],
     joySeqId |-> seqId + 1]

\* A caller converts a sample.
MapGamepadToJoy ==
    /\ joySeqId < MaxJoyCalls
    /\ \E gamepad \in JoyGamepads, now \in JoyClock :
        \E r \in {mapGamepadToJoy(gamepad, now, joySeqId)} :
            /\ joySeqId' = r.joySeqId
            /\ joy' = << [gamepad |-> gamepad, now |-> now, msg |-> r.msg,
                          call |-> IF joy = <<>> THEN 1 ELSE joy[1].call + 1] >>
    /\ UNCHANGED <<isBrowserSupported, listening, isRunning, actions,
                   lastTimestamp, lastGamepad, pending, pass, log, dispatched,
                   processedSample, startStreak, afterStop, ticksSinceStop>>

\* the module as loaded, with an InputSystem that is never started
InitJoy == Init /\ isBrowserSupported /\ actions = MapBase

NextJoy == MapGamepadToJoy

SpecJoy == InitJoy /\ [][NextJoy]_vars

(* C20: the message of a call has as many axes as the sample; an axis is 0 *)
(* where the sample's value is below 0.09, negative values included, and   *)
(* the sample's value elsewhere, so no axis of a message is negative; and  *)
(* the n-th call of mapGamepadToJoy, for whatever gamepad, returns         *)
(* header.seq = n - 1.                                                     *)
C20_JoyAxesAndSeq ==
    joy # <<>> =>
        LET input == joy[1].gamepad.axes
            output == joy[1].msg.axes
        IN /\ Len(output) = Len(input)
           /\ \A k \in 1 .. Len(input) :
                 /\ input[k] < 9 => output[k] = 0
                 /\ input[k] >= 9 => output[k] = input[k]
                 /\ output[k] >= 0
           /\ joy[1].msg.header.seq = joy[1].call - 1

\* the third call, for a sample with a negative axis and one above the
\* deadzone
C20_Witness ==
    /\ joy # <<>>
    /\ joy[1].call = 3
    /\ joy[1].gamepad.axes = <<-50, 20>>
    /\ joy[1].msg.axes = <<0, 20>>
    /\ joy[1].msg.header.seq = 2

====
